---- MODULE Spec2Model ----
(***************************************************************************)
(* Model of the meeting analyser (src/App.tsx, src/services/               *)
(* geminiService.ts, types in src/unnamed/part_000).                       *)
(*                                                                         *)
(* Conventions.  A JavaScript string is a sequence of one-character        *)
(* strings; the character "_" stands for a white-space character.  A       *)
(* nullable value is a sequence of length 0 (null) or 1 (the value).  The  *)
(* two nullable strings error and qaAnswer use the string "null".          *)
(***************************************************************************)
EXTENDS Integers, Sequences, FiniteSets, TLC

VARIABLES
    storage,            \* localStorage item 'savedMeetings'
    found,              \* that item as the page found it when it was opened
    boot,               \* position in the mount effects of App
    view, error,
    audioFile, appState, analysisResult,
    speakerNameMap, uniqueSpeakers,
    editingSpeaker, tempSpeakerName,
    editingTranscript,
    editingSection, tempSummary, tempActionItems,
    savedMeetings, selectedMeetingIds,
    qaQuestion, qaAnswer, isAnswering,
    analyzeCalls,       \* outstanding processAudio continuations
    answerCalls,        \* outstanding handleAskQuestion continuations
    now,                \* the wall clock read by new Date()
    typed,              \* changes made in the inline editors so far
    analyses,           \* analyze requests issued so far
    gwArgs, gwOut       \* one call of a gateway function and what it produced

vars == <<storage, found, boot, view, error, audioFile, appState, analysisResult,
          speakerNameMap, uniqueSpeakers, editingSpeaker, tempSpeakerName,
          editingTranscript, editingSection, tempSummary, tempActionItems,
          savedMeetings, selectedMeetingIds, qaQuestion, qaAnswer, isAnswering,
          analyzeCalls, answerCalls, now, typed, analyses, gwArgs, gwOut>>

editorVars == <<editingSpeaker, tempSpeakerName, editingTranscript,
                editingSection, tempSummary, tempActionItems>>
analysisVars == <<audioFile, appState, analysisResult, speakerNameMap, uniqueSpeakers>>
qaVars == <<selectedMeetingIds, qaQuestion, qaAnswer, isAnswering, answerCalls>>
gwVars == <<gwArgs, gwOut>>
budgetVars == <<typed, analyses>>

(***************************************************************************)
(* Bounds of the model.                                                    *)
(***************************************************************************)
MaxMeetings == 2        \* saved meetings held at once
MaxClock == 3           \* last instant of the wall clock
MaxArgLen == 3          \* longest meetings argument handed to answer
MaxTyped == 1           \* changes the user makes in the inline editors
MaxAnalyses == 2        \* analyze requests the user issues

(***************************************************************************)
(* Values.                                                                 *)
(***************************************************************************)
Null == <<>>
Some(v) == <<v>>
IsNull(o) == o = <<>>
Val(o) == o[1]

NoError == "null"
NoAnswer == "null"

\* Code-unit order of the characters used in the model.
Alphabet == <<"_", ".", "A", "B", "a", "h", "m", "s", "t", "w", "x", "y">>

CharCode(c) == CHOOSE i \in 1..Len(Alphabet) : Alphabet[i] = c

\* a < b on strings, as the default comparison of Array.prototype.sort
RECURSIVE StrLess(_, _)
StrLess(a, b) ==
    IF b = <<>> THEN FALSE
    ELSE IF a = <<>> THEN TRUE
    ELSE IF Head(a) # Head(b) THEN CharCode(Head(a)) < CharCode(Head(b))
    ELSE StrLess(Tail(a), Tail(b))

RECURSIVE TrimStart(_)
TrimStart(s) == IF s # <<>> /\ Head(s) = "_" THEN TrimStart(Tail(s)) ELSE s

RECURSIVE TrimEnd(_)
TrimEnd(s) ==
    IF s # <<>> /\ s[Len(s)] = "_" THEN TrimEnd(SubSeq(s, 1, Len(s) - 1)) ELSE s

\* String.prototype.trim
Trim(s) == TrimEnd(TrimStart(s))

\* name.replace(/\.[^/.]+$/, "")
StripExtension(name) ==
    LET dots == {i \in 1..Len(name) : name[i] = "."}
    IN  IF dots = {} THEN name
        ELSE LET d == CHOOSE i \in dots : \A j \in dots : j <= i
             IN  IF d < Len(name) THEN SubSeq(name, 1, d - 1) ELSE name

SeqToSet(s) == {s[i] : i \in 1..Len(s)}

\* new Date(ts).getTime(): timestamps are instants of the clock
GetTime(ts) == ts

\* Array.prototype.sort is stable: an element inserted from the right goes
\* before the first element the comparator puts it strictly before.
RECURSIVE InsertAsc(_, _)
InsertAsc(x, s) ==
    IF s = <<>> THEN <<x>>
    ELSE IF GetTime(x.timestamp) - GetTime(Head(s).timestamp) < 0 THEN <<x>> \o s
    ELSE <<Head(s)>> \o InsertAsc(x, Tail(s))

\* meetings.sort((a, b) => time(a) - time(b))
RECURSIVE SortAscending(_)
SortAscending(s) ==
    IF s = <<>> THEN <<>>
    ELSE InsertAsc(s[Len(s)], SortAscending(SubSeq(s, 1, Len(s) - 1)))

RECURSIVE InsertDesc(_, _)
InsertDesc(x, s) ==
    IF s = <<>> THEN <<x>>
    ELSE IF GetTime(Head(s).timestamp) - GetTime(x.timestamp) < 0 THEN <<x>> \o s
    ELSE <<Head(s)>> \o InsertDesc(x, Tail(s))

\* savedMeetings.sort((a, b) => time(b) - time(a))
RECURSIVE SortDescending(_)
SortDescending(s) ==
    IF s = <<>> THEN <<>>
    ELSE InsertDesc(s[Len(s)], SortDescending(SubSeq(s, 1, Len(s) - 1)))

RECURSIVE InsertStr(_, _)
InsertStr(x, s) ==
    IF s = <<>> THEN <<x>>
    ELSE IF StrLess(x, Head(s)) THEN <<x>> \o s
    ELSE <<Head(s)>> \o InsertStr(x, Tail(s))

\* strings.sort()
RECURSIVE SortStrings(_)
SortStrings(s) ==
    IF s = <<>> THEN <<>>
    ELSE InsertStr(s[Len(s)], SortStrings(SubSeq(s, 1, Len(s) - 1)))

\* [...new Set(array)]: the distinct elements in order of first occurrence
RECURSIVE Distinct(_)
Distinct(s) ==
    IF s = <<>> THEN <<>>
    ELSE LET d == Distinct(SubSeq(s, 1, Len(s) - 1))
         IN  IF s[Len(s)] \in SeqToSet(d) THEN d ELSE Append(d, s[Len(s)])

(***************************************************************************)
(* Types of src/unnamed/part_000 and the values the model draws from.      *)
(***************************************************************************)
SpeakerTurn(sp, tx) == [speaker |-> sp, text |-> tx]

AnalysisResultOf(tr, su, ai) == [transcript |-> tr, summary |-> su, actionItems |-> ai]

MeetingOf(i, ti, ts, an) == [id |-> i, title |-> ti, timestamp |-> ts, analysis |-> an]

\* enum AppState
INITIAL == "initial"
LOADING == "loading"
SUCCESS == "success"
ERROR == "error"

\* Files the user can pick or drop: a recording and a text document.
AudioRecording == [name |-> <<"m", ".", "w">>, type |-> <<"audio", "wav">>]
TextDocument == [name |-> <<"t", ".", "x">>, type |-> <<"text", "plain">>]
Files == {AudioRecording, TextDocument}

\* file.type.startsWith('audio/')
IsAudioType(type) == type[1] = "audio"

\* What the user types into an inline editor or the question box.
TypedTexts == {<<"_">>, <<"_", "x">>}

\* Answers the remote model gives.
AnswerTexts == {"yes"}

\* Identifiers crypto.randomUUID() returns, and those of earlier sessions.
UUIDs == {<<"u", i>> : i \in 1..MaxMeetings}
StoredIds == {<<"p", 1>>, <<"p", 2>>}

(***************************************************************************)
(* JSON values of a remote response: a property is absent, null, a string  *)
(* or an array of objects with optional speaker and text properties.       *)
(***************************************************************************)
JAbsent == [k |-> "absent", str |-> <<>>, items |-> <<>>]
JNull == [k |-> "null", str |-> <<>>, items |-> <<>>]
JStr(s) == [k |-> "string", str |-> s, items |-> <<>>]
JArr(a) == [k |-> "array", str |-> <<>>, items |-> a]
JTurn(sp, tx) == [speaker |-> sp, text |-> tx]
JObj(tr, su, ai) == [transcript |-> tr, summary |-> su, actionItems |-> ai]

\* !value of JavaScript
Falsy(j) == j.k \in {"absent", "null"} \/ (j.k = "string" /\ j.str = <<>>)

\* A response of ai.models.generateContent: the call rejects, the text is
\* empty, the text is not JSON, or the text is a JSON object.
Response(kind, obj) == [kind |-> kind, obj |-> obj]
Rejected == Response("reject", JObj(JAbsent, JAbsent, JAbsent))
EmptyBody == Response("empty", JObj(JAbsent, JAbsent, JAbsent))
NotJson == Response("malformed", JObj(JAbsent, JAbsent, JAbsent))
JsonBody(tr, su, ai) == Response("json", JObj(tr, su, ai))

SpA == <<"A">>
SpB == <<"B">>

TranscriptOne == JArr(<<JTurn(Some(SpB), Some(<<"h">>)), JTurn(Some(SpA), Some(<<"y">>))>>)
TranscriptTwo == JArr(<<JTurn(Some(SpA), Some(<<"h">>)), JTurn(Some(SpA), Some(<<"y">>))>>)

TranscriptValues ==
    { JAbsent, JNull, JStr(<<"t">>), JArr(<<>>), TranscriptOne, TranscriptTwo,
      JArr(<<JTurn(Null, Some(<<"h">>))>>), JArr(<<JTurn(Some(SpA), Null)>>) }

StringValues == {JAbsent, JNull, JStr(<<>>), JStr(<<"s">>)}

\* Every response the gateway is examined on.
AllResponses ==
    {Rejected, EmptyBody, NotJson} \cup
    {JsonBody(tr, su, ai) : tr \in TranscriptValues, su \in StringValues, ai \in StringValues}

\* The responses the remote gives while the application runs.
RemoteResponses ==
    { Rejected, EmptyBody,
      JsonBody(JAbsent, JStr(<<"s">>), JStr(<<"a">>)),
      JsonBody(TranscriptOne, JStr(<<"s">>), JStr(<<"a">>)),
      JsonBody(TranscriptTwo, JStr(<<"s">>), JStr(<<"a">>)) }

(***************************************************************************)
(* src/services/geminiService.ts                                           *)
(***************************************************************************)
Thrown(msg) == [ok |-> FALSE, value |-> JObj(JAbsent, JAbsent, JAbsent), message |-> msg]
Returned(obj) == [ok |-> TRUE, value |-> obj, message |-> "null"]

\* The try block of analyzeMeetingAudio: the basic validation.
MissingRequiredFields(obj) ==
    Falsy(obj.transcript) \/ Falsy(obj.summary) \/ Falsy(obj.actionItems)

\* analyzeMeetingAudio, as a function of the response of the remote call.
analyzeMeetingAudio(resp) ==
    IF resp.kind = "reject" THEN Thrown("Failed to process audio with Gemini API.")
    ELSE IF resp.kind = "empty" THEN Thrown("Failed to process audio with Gemini API.")
    ELSE IF resp.kind = "malformed" THEN Thrown("Failed to process audio with Gemini API.")
    ELSE IF MissingRequiredFields(resp.obj)
         THEN Thrown("Failed to process audio with Gemini API.")
    ELSE Returned(resp.obj)

\* One context block of the prompt of answerQuestionFromMeetings.
ContextBlock(meeting) ==
    [ title |-> meeting.title, date |-> meeting.timestamp,
      lines |-> [i \in 1..Len(meeting.analysis.transcript) |->
                    <<meeting.analysis.transcript[i].speaker,
                      meeting.analysis.transcript[i].text>>] ]

\* A context composed without the sort.
UnsortedContext(meetings) == [i \in 1..Len(meetings) |-> ContextBlock(meetings[i])]

\* meetings.sort(...).map(...): the context of the prompt
FormattedContext(meetings) ==
    LET sorted == SortAscending(meetings)
    IN  [i \in 1..Len(sorted) |-> ContextBlock(sorted[i])]

\* The prompt answerQuestionFromMeetings sends.
Prompt(question, meetings) ==
    [context |-> FormattedContext(meetings), question |-> question]

\* The try block of answerQuestionFromMeetings, as a function of the response:
\* "reject", "empty" or the text.
answerQuestionFromMeetings(responseText) ==
    IF responseText \in {"reject", "empty"}
    THEN [ok |-> FALSE, text |-> "null", message |-> "Failed to get an answer from the AI."]
    ELSE [ok |-> TRUE, text |-> responseText, message |-> "null"]

(***************************************************************************)
(* localStorage: the item 'savedMeetings' is missing, is text that is not  *)
(* JSON, or is JSON text of a collection; pretty marks text laid out       *)
(* otherwise than JSON.stringify lays it out.                              *)
(***************************************************************************)
StoreMissing == [kind |-> "missing", pretty |-> FALSE, value |-> <<>>]
StoreMalformed == [kind |-> "malformed", pretty |-> FALSE, value |-> <<>>]
StoreJson(pretty, value) == [kind |-> "json", pretty |-> pretty, value |-> value]

\* A JSON.parse that takes any text for an empty collection.
JSONparseLenient(item) == [ok |-> TRUE, value |-> item.value]

\* JSON.parse of an item that is present
JSONparse(item) ==
    IF item.kind = "json" THEN [ok |-> TRUE, value |-> item.value]
    ELSE [ok |-> FALSE, value |-> <<>>]

\* JSON.stringify of a collection
JSONstringify(value) == StoreJson(FALSE, value)

\* Meetings saved by earlier sessions.
StoredAnalysis ==
    AnalysisResultOf(<<SpeakerTurn(SpA, <<"h">>)>>, <<"s">>, <<"a">>)
StoredOne == MeetingOf(<<"p", 1>>, <<"m">>, 1, StoredAnalysis)
StoredTwo == MeetingOf(<<"p", 2>>, <<"t">>, 2, StoredAnalysis)

InitialStores ==
    { StoreMissing, StoreMalformed,
      StoreJson(FALSE, <<>>), StoreJson(FALSE, <<StoredOne>>),
      StoreJson(TRUE, <<StoredOne, StoredTwo>>),
      StoreJson(FALSE, <<StoredTwo, StoredOne>>) }

\* The instant of the clock when the application starts.
StartClock == 2

GwIdle == [op |-> "none", response |-> Rejected, meetings |-> <<>>]
GwNothing == [op |-> "none", outcome |-> Thrown("null"), context |-> <<>>]

(***************************************************************************)
(* src/App.tsx: the state after construction (lines 23-46).                *)
(***************************************************************************)
AppInit ==
    /\ boot = "mount"
    /\ view = "analyze"
    /\ error = NoError
    /\ audioFile = Null
    /\ appState = INITIAL
    /\ analysisResult = Null
    /\ speakerNameMap = <<>>
    /\ uniqueSpeakers = <<>>
    /\ editingSpeaker = Null
    /\ tempSpeakerName = <<>>
    /\ editingTranscript = Null
    /\ editingSection = "null"
    /\ tempSummary = <<>>
    /\ tempActionItems = <<>>
    /\ savedMeetings = <<>>
    /\ selectedMeetingIds = {}
    /\ qaQuestion = <<>>
    /\ qaAnswer = NoAnswer
    /\ isAnswering = FALSE
    /\ analyzeCalls = <<>>
    /\ answerCalls = <<>>
    /\ now = StartClock
    /\ typed = 0
    /\ analyses = 0

Init ==
    /\ AppInit
    /\ storage \in InitialStores
    /\ found = storage
    /\ gwArgs = GwIdle
    /\ gwOut = GwNothing

\* renderQaView sorts savedMeetings in place whenever the Q&A view is drawn.
Rendered(v, meetings) ==
    IF v = "qa" /\ Len(meetings) > 0 THEN SortDescending(meetings) ELSE meetings

\* A persist effect that writes the collection of the first render.
PersistEffectStale(meetings, writeOk, errorBefore) ==
    /\ storage' = IF writeOk THEN JSONstringify(<<>>) ELSE storage
    /\ error' = IF writeOk THEN errorBefore
                ELSE "Could not save meetings. Your changes might not persist."

\* A persist effect that reports nothing when the write throws.
PersistEffectSilent(meetings, writeOk, errorBefore) ==
    /\ storage' = IF writeOk THEN JSONstringify(meetings) ELSE storage
    /\ error' = errorBefore

\* localStorage.setItem in the persist effect: the write goes through or throws.
PersistEffect(meetings, writeOk, errorBefore) ==
    /\ storage' = IF writeOk THEN JSONstringify(meetings) ELSE storage
    /\ error' = IF writeOk THEN errorBefore
                ELSE "Could not save meetings. Your changes might not persist."

\* The load effect (lines 49-59), run once after the first render.
LoadEffect ==
    /\ boot = "mount"
    /\ \E readOk \in BOOLEAN :
        IF ~readOk THEN
            /\ error' = "Could not load saved meetings."
            /\ boot' = "loaded"
            /\ UNCHANGED savedMeetings
        ELSE IF storage.kind = "missing" THEN
            /\ boot' = "loaded"
            /\ UNCHANGED <<error, savedMeetings>>
        ELSE IF ~JSONparse(storage).ok THEN
            /\ error' = "Could not load saved meetings."
            /\ boot' = "loaded"
            /\ UNCHANGED savedMeetings
        ELSE
            /\ savedMeetings' = JSONparse(storage).value
            /\ boot' = "loaded_update"
            /\ UNCHANGED error
    /\ UNCHANGED <<storage, view, analysisVars, editorVars, qaVars, analyzeCalls, now, gwVars, found, budgetVars>>

\* The persist effect (lines 62-69) after the first render: it writes the
\* collection of that render, which is the initial empty one.
PersistEffectOnMount ==
    /\ boot \in {"loaded", "loaded_update"}
    /\ \E writeOk \in BOOLEAN : PersistEffect(<<>>, writeOk, error)
    /\ boot' = IF boot = "loaded_update" THEN "rerender" ELSE "ready"
    /\ UNCHANGED <<view, savedMeetings, analysisVars, editorVars, qaVars, analyzeCalls, now, gwVars, found, budgetVars>>

\* The persist effect after the render that follows setSavedMeetings of the load.
PersistEffectOnLoad ==
    /\ boot = "rerender"
    /\ \E writeOk \in BOOLEAN : PersistEffect(savedMeetings, writeOk, error)
    /\ boot' = "ready"
    /\ UNCHANGED <<view, savedMeetings, analysisVars, editorVars, qaVars, analyzeCalls, now, gwVars, found, budgetVars>>

(***************************************************************************)
(* The Analyze view.                                                       *)
(***************************************************************************)
\* What the Analyze view draws (renderAnalysisView).
DropZoneShown == view = "analyze" /\ appState = INITIAL
AnalyzeButtonShown == view = "analyze" /\ ~IsNull(audioFile) /\ appState # SUCCESS
\* The disabled flag without its loading test.
AnalyzeButtonOnlyWithoutFile == IsNull(audioFile)

AnalyzeButtonDisabled == IsNull(audioFile) \/ appState = LOADING
ResultShown == view = "analyze" /\ appState = SUCCESS /\ ~IsNull(analysisResult)

\* The nav buttons: setView.
SetView(v) ==
    /\ boot = "ready"
    /\ view # v
    /\ view' = v
    /\ savedMeetings' = Rendered(v, savedMeetings)
    /\ UNCHANGED <<storage, boot, error, analysisVars, editorVars, qaVars, analyzeCalls, now, gwVars, found, budgetVars>>

\* handleFileChange: the picker hands over the file the user chose.
handleFileChange(file) ==
    /\ boot = "ready"
    /\ DropZoneShown
    /\ audioFile' = Some(file)
    /\ error' = NoError
    /\ UNCHANGED <<storage, boot, view, appState, analysisResult, speakerNameMap,
                   uniqueSpeakers, editorVars, savedMeetings, qaVars, analyzeCalls, now, gwVars, found, budgetVars>>

\* handleDrop
handleDrop(file) ==
    /\ boot = "ready"
    /\ DropZoneShown
    /\ IF IsAudioType(file.type)
       THEN audioFile' = Some(file) /\ error' = NoError
       ELSE error' = "Please drop a valid audio file." /\ UNCHANGED audioFile
    /\ UNCHANGED <<storage, boot, view, appState, analysisResult, speakerNameMap,
                   uniqueSpeakers, editorVars, savedMeetings, qaVars, analyzeCalls, now, gwVars, found, budgetVars>>

\* A processAudio call that is waiting for fileToBase64 and analyzeMeetingAudio;
\* prior is the analysis that was on display when it started.
AnalyzeCall(prior) == [prior |-> prior]

\* processAudio up to its first await, from the Analyze or the Redo button.
processAudio ==
    /\ boot = "ready"
    /\ analyses < MaxAnalyses
    /\ analyses' = analyses + 1
    /\ \/ AnalyzeButtonShown /\ ~AnalyzeButtonDisabled
       \/ ResultShown
    /\ IF IsNull(audioFile)
       THEN /\ error' = "Please select an audio file first."
            /\ UNCHANGED <<appState, analysisResult, analyzeCalls>>
       ELSE /\ appState' = LOADING
            /\ error' = NoError
            /\ analysisResult' = Null
            /\ analyzeCalls' = Append(analyzeCalls, AnalyzeCall(analysisResult))
    /\ UNCHANGED <<storage, boot, view, audioFile, speakerNameMap, uniqueSpeakers,
                   editorVars, savedMeetings, qaVars, now, gwVars, found, typed>>

\* The AnalysisResult a parsed response is used as.
ToAnalysisResult(obj) ==
    AnalysisResultOf(
        [i \in 1..Len(obj.transcript.items) |->
            SpeakerTurn(Val(obj.transcript.items[i].speaker), Val(obj.transcript.items[i].text))],
        obj.summary.str, obj.actionItems.str)

\* The distinct speakers in order of first occurrence, without the sort.
SpeakersUnsorted(transcript) ==
    Distinct([i \in 1..Len(transcript) |-> transcript[i].speaker])

\* [...new Set(result.transcript.map(t => t.speaker))].sort()
Speakers(transcript) ==
    SortStrings(Distinct([i \in 1..Len(transcript) |-> transcript[i].speaker]))

\* A seed of the map that adds a key no speaker has.
InitialMapExtra(speakers) == [sp \in SeqToSet(speakers) \cup {<<"x">>} |-> sp]

\* speakers.reduce((acc, speaker) => ({ ...acc, [speaker]: speaker }), {})
InitialMap(speakers) == [sp \in SeqToSet(speakers) |-> sp]

\* processAudio after its awaits: the file read fails, or the gateway throws
\* or returns what it made of the response.
processAudioSettle(readOk, resp) ==
    /\ analyzeCalls # <<>>
    /\ analyzeCalls' = Tail(analyzeCalls)
    /\ LET outcome == analyzeMeetingAudio(resp) IN
       IF ~readOk THEN
            /\ error' = "Failed to analyze audio. An unknown error occurred."
            /\ appState' = ERROR
            /\ UNCHANGED <<analysisResult, speakerNameMap, uniqueSpeakers>>
       ELSE IF ~outcome.ok THEN
            /\ error' = "Failed to analyze audio. Failed to process audio with Gemini API."
            /\ appState' = ERROR
            /\ UNCHANGED <<analysisResult, speakerNameMap, uniqueSpeakers>>
       ELSE IF outcome.value.transcript.k # "array" THEN
            /\ error' = "Failed to analyze audio. result.transcript.map is not a function"
            /\ appState' = ERROR
            /\ UNCHANGED <<analysisResult, speakerNameMap, uniqueSpeakers>>
       ELSE LET result == ToAnalysisResult(outcome.value)
                speakers == Speakers(result.transcript)
            IN  /\ uniqueSpeakers' = speakers
                /\ speakerNameMap' = InitialMap(speakers)
                /\ analysisResult' = Some(result)
                /\ appState' = SUCCESS
                /\ UNCHANGED error
    /\ UNCHANGED <<storage, boot, view, audioFile, editorVars, savedMeetings, qaVars, now, gwVars, found, budgetVars>>

\* A reset that leaves the transcript editor alone.
ResetAnalysisKeepsEditor ==
    /\ audioFile' = Null
    /\ analysisResult' = Null
    /\ appState' = INITIAL
    /\ speakerNameMap' = <<>>
    /\ uniqueSpeakers' = <<>>
    /\ editingSpeaker' = Null
    /\ tempSpeakerName' = <<>>
    /\ editingTranscript' = editingTranscript
    /\ editingSection' = "null"
    /\ tempSummary' = <<>>
    /\ tempActionItems' = <<>>

\* handleResetAnalysis: the fields it clears
ResetAnalysis ==
    /\ audioFile' = Null
    /\ analysisResult' = Null
    /\ appState' = INITIAL
    /\ speakerNameMap' = <<>>
    /\ uniqueSpeakers' = <<>>
    /\ editingSpeaker' = Null
    /\ tempSpeakerName' = <<>>
    /\ editingTranscript' = Null
    /\ editingSection' = "null"
    /\ tempSummary' = <<>>
    /\ tempActionItems' = <<>>

\* handleResetAnalysis, from the Analyze Another button
handleResetAnalysis ==
    /\ boot = "ready"
    /\ ResultShown
    /\ ResetAnalysis
    /\ error' = NoError
    /\ UNCHANGED <<storage, boot, view, savedMeetings, qaVars, analyzeCalls, now, gwVars, found, budgetVars>>

\* A save that keeps the raw identifiers.
RawName(map, speaker) == speaker

\* speakerNameMap[turn.speaker] || turn.speaker
DisplayName(map, speaker) ==
    IF speaker \in DOMAIN map /\ map[speaker] # <<>> THEN map[speaker] ELSE speaker

\* finalTranscript of handleSaveMeeting
FinalTranscript(transcript, map) ==
    [i \in 1..Len(transcript) |->
        SpeakerTurn(DisplayName(map, transcript[i].speaker), transcript[i].text)]

\* newMeeting of handleSaveMeeting
NewMeeting(id, file, ts, result, map) ==
    MeetingOf(id, StripExtension(file.name), ts,
              AnalysisResultOf(FinalTranscript(result.transcript, map),
                               result.summary, result.actionItems))

MeetingIds(meetings) == {meetings[i].id : i \in 1..Len(meetings)}

\* crypto.randomUUID(): an identifier no meeting of the collection carries
FreshIds(meetings) == UUIDs \ MeetingIds(meetings)

\* handleSaveMeeting, from the Save Meeting button, with the persist effect
\* that follows the change of savedMeetings.
handleSaveMeeting ==
    /\ boot = "ready"
    /\ ResultShown
    /\ Len(savedMeetings) < MaxMeetings
    /\ IF IsNull(analysisResult) \/ IsNull(audioFile) THEN UNCHANGED vars
       ELSE \E id \in FreshIds(savedMeetings), ts \in now..MaxClock, writeOk \in BOOLEAN :
            LET meeting == NewMeeting(id, Val(audioFile), ts, Val(analysisResult), speakerNameMap)
                meetings == Rendered(view, Append(savedMeetings, meeting))
            IN  /\ savedMeetings' = meetings
                /\ now' = ts
                /\ ResetAnalysis
                /\ PersistEffect(meetings, writeOk, NoError)
                /\ UNCHANGED <<boot, view, qaVars, analyzeCalls, gwVars, found, budgetVars>>

(***************************************************************************)
(* The inline editors of the result (lines 166-206, drawn at 314-365).     *)
(* An input calls its commit handler on Enter and on losing focus, its     *)
(* cancel handler on Escape and its setter on every change.                *)
(***************************************************************************)
SpeakerInputShown ==
    ResultShown /\ ~IsNull(editingSpeaker) /\ Val(editingSpeaker) \in SeqToSet(uniqueSpeakers)

TranscriptInputShown ==
    /\ ResultShown
    /\ ~IsNull(editingTranscript)
    /\ Val(editingTranscript).index \in 1..Len(Val(analysisResult).transcript)

SectionInputShown == ResultShown /\ editingSection # "null"

\* handleEditSpeaker, from a click on a speaker name that is not being edited
handleEditSpeaker(speakerId) ==
    /\ boot = "ready"
    /\ ResultShown
    /\ speakerId \in SeqToSet(uniqueSpeakers)
    /\ editingSpeaker # Some(speakerId)
    /\ editingSpeaker' = Some(speakerId)
    /\ tempSpeakerName' = speakerNameMap[speakerId]
    /\ UNCHANGED <<storage, boot, view, error, analysisVars, editingTranscript, editingSection,
                   tempSummary, tempActionItems, savedMeetings, qaVars, analyzeCalls, now, gwVars, found, budgetVars>>

\* onChange of the speaker input
setTempSpeakerName(text) ==
    /\ boot = "ready"
    /\ typed < MaxTyped
    /\ typed' = typed + 1
    /\ SpeakerInputShown
    /\ tempSpeakerName' = text
    /\ UNCHANGED <<storage, boot, view, error, analysisVars, editingSpeaker, editingTranscript,
                   editingSection, tempSummary, tempActionItems, savedMeetings, qaVars,
                   analyzeCalls, now, gwVars, found, analyses>>

\* handleCancelSpeakerEdit, from Escape
handleCancelSpeakerEdit ==
    /\ boot = "ready"
    /\ SpeakerInputShown
    /\ editingSpeaker' = Null
    /\ tempSpeakerName' = <<>>
    /\ UNCHANGED <<storage, boot, view, error, analysisVars, editingTranscript, editingSection,
                   tempSummary, tempActionItems, savedMeetings, qaVars, analyzeCalls, now, gwVars, found, budgetVars>>

\* A spread that gives every key the new value.
MapWithAll(map, key, value) == [k \in DOMAIN map \cup {key} |-> value]

\* { ...prev, [key]: value }
MapWith(map, key, value) ==
    [k \in DOMAIN map \cup {key} |-> IF k = key THEN value ELSE map[k]]

\* A commit of the speaker editor that stores the trimmed text even when empty.
handleSaveSpeakerNameAny ==
    /\ boot = "ready"
    /\ SpeakerInputShown
    /\ speakerNameMap' = MapWith(speakerNameMap, Val(editingSpeaker), Trim(tempSpeakerName))
    /\ editingSpeaker' = Null
    /\ tempSpeakerName' = <<>>
    /\ UNCHANGED <<storage, boot, view, error, audioFile, appState, analysisResult, uniqueSpeakers,
                   editingTranscript, editingSection, tempSummary, tempActionItems,
                   savedMeetings, qaVars, analyzeCalls, now, gwVars, found, budgetVars>>

\* handleSaveSpeakerName, from Enter or loss of focus
handleSaveSpeakerName ==
    /\ boot = "ready"
    /\ SpeakerInputShown
    /\ speakerNameMap' =
         IF Val(editingSpeaker) # <<>> /\ Trim(tempSpeakerName) # <<>>
         THEN MapWith(speakerNameMap, Val(editingSpeaker), Trim(tempSpeakerName))
         ELSE speakerNameMap
    /\ editingSpeaker' = Null
    /\ tempSpeakerName' = <<>>
    /\ UNCHANGED <<storage, boot, view, error, audioFile, appState, analysisResult, uniqueSpeakers,
                   editingTranscript, editingSection, tempSummary, tempActionItems,
                   savedMeetings, qaVars, analyzeCalls, now, gwVars, found, budgetVars>>

\* handleEditTranscript, from a click on the text of a turn that is not being edited
handleEditTranscript(index) ==
    /\ boot = "ready"
    /\ ResultShown
    /\ index \in 1..Len(Val(analysisResult).transcript)
    /\ IF IsNull(editingTranscript) THEN TRUE ELSE Val(editingTranscript).index # index
    /\ editingTranscript' =
         Some([index |-> index, text |-> Val(analysisResult).transcript[index].text])
    /\ UNCHANGED <<storage, boot, view, error, analysisVars, editingSpeaker, tempSpeakerName,
                   editingSection, tempSummary, tempActionItems, savedMeetings, qaVars,
                   analyzeCalls, now, gwVars, found, budgetVars>>

\* onChange of the transcript textarea
setEditingTranscript(text) ==
    /\ boot = "ready"
    /\ typed < MaxTyped
    /\ typed' = typed + 1
    /\ TranscriptInputShown
    /\ editingTranscript' = Some([index |-> Val(editingTranscript).index, text |-> text])
    /\ UNCHANGED <<storage, boot, view, error, analysisVars, editingSpeaker, tempSpeakerName,
                   editingSection, tempSummary, tempActionItems, savedMeetings, qaVars,
                   analyzeCalls, now, gwVars, found, analyses>>

\* A map that gives every turn the text of the editor.
UpdatedTranscriptAll(transcript, editing) ==
    [i \in 1..Len(transcript) |-> SpeakerTurn(transcript[i].speaker, Trim(editing.text))]

\* updatedTranscript of handleSaveTranscript
UpdatedTranscript(transcript, editing) ==
    [i \in 1..Len(transcript) |->
        IF i = editing.index THEN SpeakerTurn(transcript[i].speaker, Trim(editing.text))
        ELSE transcript[i]]

\* handleSaveTranscript, from Enter or loss of focus
handleSaveTranscript ==
    /\ boot = "ready"
    /\ TranscriptInputShown
    /\ IF IsNull(editingTranscript) \/ IsNull(analysisResult)
       THEN UNCHANGED <<analysisResult, editingTranscript>>
       ELSE /\ analysisResult' =
                 Some([Val(analysisResult) EXCEPT
                        !.transcript = UpdatedTranscript(@, Val(editingTranscript))])
            /\ editingTranscript' = Null
    /\ UNCHANGED <<storage, boot, view, error, audioFile, appState, speakerNameMap, uniqueSpeakers,
                   editingSpeaker, tempSpeakerName, editingSection, tempSummary, tempActionItems,
                   savedMeetings, qaVars, analyzeCalls, now, gwVars, found, budgetVars>>

\* handleCancelTranscriptEdit, from Escape
handleCancelTranscriptEdit ==
    /\ boot = "ready"
    /\ TranscriptInputShown
    /\ editingTranscript' = Null
    /\ UNCHANGED <<storage, boot, view, error, analysisVars, editingSpeaker, tempSpeakerName,
                   editingSection, tempSummary, tempActionItems, savedMeetings, qaVars,
                   analyzeCalls, now, gwVars, found, budgetVars>>

\* handleEditSection, from a click on the summary or the action items
handleEditSection(section) ==
    /\ boot = "ready"
    /\ ResultShown
    /\ editingSection # section
    /\ IF IsNull(analysisResult) THEN UNCHANGED <<editingSection, tempSummary, tempActionItems>>
       ELSE /\ editingSection' = section
            /\ IF section = "summary"
               THEN tempSummary' = Val(analysisResult).summary /\ UNCHANGED tempActionItems
               ELSE tempActionItems' = Val(analysisResult).actionItems /\ UNCHANGED tempSummary
    /\ UNCHANGED <<storage, boot, view, error, analysisVars, editingSpeaker, tempSpeakerName,
                   editingTranscript, savedMeetings, qaVars, analyzeCalls, now, gwVars, found, budgetVars>>

\* onChange of the summary or the action items textarea
setTempSection(text) ==
    /\ boot = "ready"
    /\ typed < MaxTyped
    /\ typed' = typed + 1
    /\ SectionInputShown
    /\ IF editingSection = "summary"
       THEN tempSummary' = text /\ UNCHANGED tempActionItems
       ELSE tempActionItems' = text /\ UNCHANGED tempSummary
    /\ UNCHANGED <<storage, boot, view, error, analysisVars, editingSpeaker, tempSpeakerName,
                   editingTranscript, editingSection, savedMeetings, qaVars, analyzeCalls,
                   now, gwVars, found, analyses>>

\* handleSaveSection, from loss of focus
handleSaveSection ==
    /\ boot = "ready"
    /\ SectionInputShown
    /\ IF IsNull(analysisResult) \/ editingSection = "null"
       THEN UNCHANGED <<analysisResult, editingSection>>
       ELSE /\ analysisResult' =
                 IF editingSection = "summary"
                 THEN Some([Val(analysisResult) EXCEPT !.summary = Trim(tempSummary)])
                 ELSE Some([Val(analysisResult) EXCEPT !.actionItems = Trim(tempActionItems)])
            /\ editingSection' = "null"
    /\ UNCHANGED <<storage, boot, view, error, audioFile, appState, speakerNameMap, uniqueSpeakers,
                   editingSpeaker, tempSpeakerName, editingTranscript, tempSummary,
                   tempActionItems, savedMeetings, qaVars, analyzeCalls, now, gwVars, found, budgetVars>>

\* handleCancelSectionEdit, from Escape
handleCancelSectionEdit ==
    /\ boot = "ready"
    /\ SectionInputShown
    /\ editingSection' = "null"
    /\ UNCHANGED <<storage, boot, view, error, analysisVars, editingSpeaker, tempSpeakerName,
                   editingTranscript, tempSummary, tempActionItems, savedMeetings, qaVars,
                   analyzeCalls, now, gwVars, found, budgetVars>>

(***************************************************************************)
(* The Saved Meetings & Q&A view (lines 210-253, drawn at 390-431).        *)
(***************************************************************************)
QaShown == view = "qa"
AskButtonDisabled == isAnswering \/ selectedMeetingIds = {}

\* handleToggleMeetingSelection, from the checkbox of a listed meeting
handleToggleMeetingSelection(meetingId) ==
    /\ boot = "ready"
    /\ QaShown
    /\ meetingId \in MeetingIds(savedMeetings)
    /\ selectedMeetingIds' =
         IF meetingId \in selectedMeetingIds
         THEN selectedMeetingIds \ {meetingId}
         ELSE selectedMeetingIds \cup {meetingId}
    /\ UNCHANGED <<storage, boot, view, error, analysisVars, editorVars, savedMeetings,
                   qaQuestion, qaAnswer, isAnswering, answerCalls, analyzeCalls, now, gwVars, found, budgetVars>>

\* prev.filter(m => m.id !== meetingId)
WithoutMeeting(meetings, meetingId) == SelectSeq(meetings, LAMBDA m : m.id # meetingId)

\* A delete that leaves the selection alone.
KeepSelection(ids, meetingId) == ids

\* The selection handleDeleteMeeting leaves.
WithoutSelection(ids, meetingId) == ids \ {meetingId}

\* handleDeleteMeeting, from the trash button of a listed meeting, with the
\* persist effect that follows the change of savedMeetings.
handleDeleteMeeting(meetingId) ==
    /\ boot = "ready"
    /\ QaShown
    /\ meetingId \in MeetingIds(savedMeetings)
    /\ \E confirmed \in BOOLEAN :
        IF ~confirmed THEN UNCHANGED vars
        ELSE \E writeOk \in BOOLEAN :
            LET meetings == Rendered(view, WithoutMeeting(savedMeetings, meetingId))
            IN  /\ savedMeetings' = meetings
                /\ selectedMeetingIds' = WithoutSelection(selectedMeetingIds, meetingId)
                /\ PersistEffect(meetings, writeOk, error)
                /\ UNCHANGED <<boot, view, analysisVars, editorVars, qaQuestion, qaAnswer,
                               isAnswering, answerCalls, analyzeCalls, now, gwVars, found, budgetVars>>

\* onChange of the question textarea
setQaQuestion(text) ==
    /\ boot = "ready"
    /\ QaShown
    /\ qaQuestion' = text
    /\ UNCHANGED <<storage, boot, view, error, analysisVars, editorVars, savedMeetings,
                   selectedMeetingIds, qaAnswer, isAnswering, answerCalls, analyzeCalls,
                   now, gwVars, found, budgetVars>>

\* savedMeetings.filter(m => selectedMeetingIds.has(m.id))
SelectedMeetings(meetings, ids) == SelectSeq(meetings, LAMBDA m : m.id \in ids)

\* A guard that does not trim the question.
AskRejectedUntrimmed(question, ids) == question = <<>> \/ Cardinality(ids) = 0

\* The guard of handleAskQuestion.
AskRejected(question, ids) == Trim(question) = <<>> \/ Cardinality(ids) = 0

\* handleAskQuestion up to its await, from the Ask button
handleAskQuestion ==
    /\ boot = "ready"
    /\ QaShown
    /\ ~AskButtonDisabled
    /\ IF AskRejected(qaQuestion, selectedMeetingIds)
       THEN /\ error' = "Please select at least one meeting and ask a question."
            /\ UNCHANGED <<isAnswering, qaAnswer, answerCalls>>
       ELSE /\ error' = NoError
            /\ isAnswering' = TRUE
            /\ qaAnswer' = NoAnswer
            /\ answerCalls' = Append(answerCalls,
                 Prompt(qaQuestion, SelectedMeetings(savedMeetings, selectedMeetingIds)))
    /\ UNCHANGED <<storage, boot, view, analysisVars, editorVars, savedMeetings,
                   selectedMeetingIds, qaQuestion, analyzeCalls, now, gwVars, found, budgetVars>>

\* A continuation without the finally block: a failed answer leaves the
\* answering flag set.
handleAskQuestionSettleNoFinally(responseText) ==
    /\ answerCalls # <<>>
    /\ answerCalls' = Tail(answerCalls)
    /\ LET outcome == answerQuestionFromMeetings(responseText) IN
       IF outcome.ok
       THEN qaAnswer' = outcome.text /\ isAnswering' = FALSE /\ UNCHANGED error
       ELSE /\ error' = "Failed to get answer. Failed to get an answer from the AI."
            /\ UNCHANGED <<qaAnswer, isAnswering>>
    /\ UNCHANGED <<storage, boot, view, analysisVars, editorVars, savedMeetings,
                   selectedMeetingIds, qaQuestion, analyzeCalls, now, gwVars, found, budgetVars>>

\* A continuation that sends the request again when it fails.
handleAskQuestionSettleRetry(responseText) ==
    /\ answerCalls # <<>>
    /\ LET outcome == answerQuestionFromMeetings(responseText) IN
       IF outcome.ok
       THEN /\ qaAnswer' = outcome.text
            /\ isAnswering' = FALSE
            /\ answerCalls' = Tail(answerCalls)
            /\ UNCHANGED error
       ELSE /\ error' = "Failed to get answer. Failed to get an answer from the AI."
            /\ answerCalls' = Append(Tail(answerCalls), Head(answerCalls))
            /\ UNCHANGED <<qaAnswer, isAnswering>>
    /\ UNCHANGED <<storage, boot, view, analysisVars, editorVars, savedMeetings,
                   selectedMeetingIds, qaQuestion, analyzeCalls, now, gwVars, found, budgetVars>>

\* handleAskQuestion after its await: the gateway throws or returns the answer
handleAskQuestionSettle(responseText) ==
    /\ answerCalls # <<>>
    /\ answerCalls' = Tail(answerCalls)
    /\ LET outcome == answerQuestionFromMeetings(responseText) IN
       IF outcome.ok
       THEN qaAnswer' = outcome.text /\ UNCHANGED error
       ELSE /\ error' = "Failed to get answer. Failed to get an answer from the AI."
            /\ UNCHANGED qaAnswer
    /\ isAnswering' = FALSE
    /\ UNCHANGED <<storage, boot, view, analysisVars, editorVars, savedMeetings,
                   selectedMeetingIds, qaQuestion, analyzeCalls, now, gwVars, found, budgetVars>>

(***************************************************************************)
(* The application: the mount effects, then any handler the page offers.   *)
(***************************************************************************)
\* The effects App runs after its first render.
Startup ==
    \/ LoadEffect
    \/ PersistEffectOnMount
    \/ PersistEffectOnLoad

\* Choosing a file and analysing it.
Analysis(files, responses) ==
    \/ \E file \in files : handleFileChange(file)
    \/ \E file \in files : handleDrop(file)
    \/ processAudio
    \/ \E readOk \in BOOLEAN, resp \in responses : processAudioSettle(readOk, resp)
    \/ handleResetAnalysis
    \/ handleSaveMeeting

\* Editing the result in place.
Editing ==
    \/ \E sp \in {SpA, SpB} : handleEditSpeaker(sp)
    \/ \E text \in TypedTexts : setTempSpeakerName(text)
    \/ handleCancelSpeakerEdit
    \/ handleSaveSpeakerName
    \/ \E index \in 1..2 : handleEditTranscript(index)
    \/ \E text \in TypedTexts : setEditingTranscript(text)
    \/ handleSaveTranscript
    \/ handleCancelTranscriptEdit
    \/ \E section \in {"summary", "actionItems"} : handleEditSection(section)
    \/ \E text \in TypedTexts : setTempSection(text)
    \/ handleSaveSection
    \/ handleCancelSectionEdit

\* The saved meetings and the questions about them.
Archive ==
    \/ \E v \in {"analyze", "qa"} : SetView(v)
    \/ \E id \in UUIDs \cup StoredIds : handleToggleMeetingSelection(id)
    \/ \E id \in UUIDs \cup StoredIds : handleDeleteMeeting(id)
    \/ \E text \in TypedTexts : setQaQuestion(text)
    \/ handleAskQuestion
    \/ \E responseText \in {"reject", "empty"} \cup AnswerTexts : handleAskQuestionSettle(responseText)

Next == Startup \/ Analysis(Files, RemoteResponses) \/ Editing \/ Archive

Spec == Init /\ [][Next]_vars

(***************************************************************************)
(* The application examined part by part.  Each part starts the            *)
(* application and offers the handlers of one region of the page; the      *)
(* handlers left out do not write the variables the part is about.         *)
(***************************************************************************)
\* A run over a store that holds no meeting.
InitEmpty ==
    /\ AppInit
    /\ storage = StoreJson(FALSE, <<>>)
    /\ found = storage
    /\ gwArgs = GwIdle
    /\ gwOut = GwNothing

\* One recording analysed, edited in place, saved.
NextSession == Startup \/ Analysis({AudioRecording}, RemoteResponses) \/ Editing

SpecSession == InitEmpty /\ [][NextSession]_vars

\* Files chosen, analysed and saved over whatever the store holds.
NextIntake == Startup \/ Analysis(Files, RemoteResponses)

SpecIntake == Init /\ [][NextIntake]_vars

ArchiveResponses == {Rejected, JsonBody(TranscriptOne, JStr(<<"s">>), JStr(<<"a">>))}

\* Meetings saved, listed, selected, deleted and asked about.
NextArchive == Startup \/ Analysis({AudioRecording}, ArchiveResponses) \/ Archive

SpecArchive == Init /\ [][NextArchive]_vars

(***************************************************************************)
(* The gateway functions on their own: one call, on any argument.          *)
(***************************************************************************)
\* Meetings handed to answerQuestionFromMeetings.
ArgMeetings ==
    { MeetingOf(<<"p", 1>>, <<"m">>, 1, StoredAnalysis),
      MeetingOf(<<"p", 2>>, <<"t">>, 2, StoredAnalysis),
      MeetingOf(<<"p", 3>>, <<"w">>, 2, StoredAnalysis),
      MeetingOf(<<"p", 4>>, <<"x">>, 3, StoredAnalysis) }

RECURSIVE SeqsUpTo(_, _)
SeqsUpTo(S, n) ==
    IF n = 0 THEN {<<>>}
    ELSE LET shorter == SeqsUpTo(S, n - 1)
         IN  shorter \cup {Append(q, x) : q \in shorter, x \in S}

InitGateway ==
    /\ AppInit
    /\ storage = StoreMissing
    /\ found = storage
    /\ gwOut = GwNothing
    /\ \/ \E resp \in AllResponses :
            gwArgs = [op |-> "analyze", response |-> resp, meetings |-> <<>>]
       \/ \E meetings \in SeqsUpTo(ArgMeetings, MaxArgLen) :
            gwArgs = [op |-> "answer", response |-> Rejected, meetings |-> meetings]

\* analyzeMeetingAudio applied to the response of the call
CallAnalyze ==
    /\ gwArgs.op = "analyze"
    /\ gwOut.op = "none"
    /\ gwOut' = [op |-> "analyze", outcome |-> analyzeMeetingAudio(gwArgs.response),
                 context |-> <<>>]
    /\ UNCHANGED <<storage, boot, view, error, analysisVars, editorVars, savedMeetings,
                   qaVars, analyzeCalls, now, budgetVars, gwArgs, found>>

\* answerQuestionFromMeetings composing its prompt
CallAnswer ==
    /\ gwArgs.op = "answer"
    /\ gwOut.op = "none"
    /\ gwOut' = [op |-> "answer", outcome |-> Thrown("null"),
                 context |-> Prompt(<<"x">>, gwArgs.meetings).context]
    /\ UNCHANGED <<storage, boot, view, error, analysisVars, editorVars, savedMeetings,
                   qaVars, analyzeCalls, now, budgetVars, gwArgs, found>>

NextGateway == CallAnalyze \/ CallAnswer

SpecGateway == InitGateway /\ [][NextGateway]_vars

(***************************************************************************)
(* Requests in flight.  The remote call of an outstanding request          *)
(* eventually resolves or rejects, so the continuation of processAudio     *)
(* and that of handleAskQuestion eventually run.                           *)
(***************************************************************************)
\* The awaited remote call of an analyze settles.
AnalyzeSettles ==
    \E readOk \in BOOLEAN, resp \in ArchiveResponses : processAudioSettle(readOk, resp)

\* The awaited remote call of an answer settles.
AnswerSettles ==
    \E responseText \in {"reject", "empty"} \cup AnswerTexts :
        handleAskQuestionSettle(responseText)

\* The archive with its requests settling.
SpecRequests ==
    /\ InitEmpty
    /\ [][NextArchive]_vars
    /\ WF_vars(AnalyzeSettles)
    /\ WF_vars(AnswerSettles)

(***************************************************************************)
(* Properties.                                                             *)
(***************************************************************************)
OpenEditors ==
    (IF IsNull(editingSpeaker) THEN 0 ELSE 1)
    + (IF IsNull(editingTranscript) THEN 0 ELSE 1)
    + (IF editingSection = "null" THEN 0 ELSE 1)

\* C1: in every reachable state at most one inline editor is open: of
\* editingSpeaker, editingTranscript and editingSection no two are set at once.
C1_AtMostOneEditor == OpenEditors <= 1

\* A processAudio call settles without an analysis to show.
AnalyzeFails == analyzeCalls # <<>> /\ analyzeCalls' = <<>> /\ appState' # SUCCESS

\* C2: when an analyze call fails, the analysis on display is the one that was
\* on display just before the call was started (none for a first analysis, the
\* previous Ready analysis for a redo).
C2_FailedAnalyzeKeepsPriorAnalysis ==
    [][AnalyzeFails => analysisResult' = Head(analyzeCalls).prior]_vars

\* C3: at most one analyze request and at most one answer request is
\* outstanding; an analyze is outstanding exactly while appState is LOADING and
\* an answer exactly while isAnswering is set.
C3_OneRequestPerSlot ==
    /\ Len(analyzeCalls) <= 1
    /\ Len(answerCalls) <= 1
    /\ (Len(analyzeCalls) = 1) <=> (appState = LOADING)
    /\ (Len(answerCalls) = 1) <=> isAnswering

\* An analyze and an answer outstanding together.
C3_BothOutstanding == Len(analyzeCalls) = 1 /\ Len(answerCalls) = 1

\* C4: every id of the selection set is the id of a meeting of the
\* saved-meetings collection.
C4_SelectionWithinSaved == selectedMeetingIds \subseteq MeetingIds(savedMeetings)

\* A stored meeting has been deleted (the write of the delete failed, so the
\* store still lists it) while the meeting that remains is selected.
C4_DeletedBesideSelected ==
    /\ boot = "ready"
    /\ storage.kind = "json"
    /\ MeetingIds(storage.value) = StoredIds
    /\ Len(savedMeetings) = 1
    /\ selectedMeetingIds = MeetingIds(savedMeetings)

\* A step that adds a meeting to the collection.
MeetingSaved == Len(savedMeetings') = Len(savedMeetings) + 1

\* C5: the transcript of a meeting just saved has the turns of the current
\* analysis, in order and with their text, each under the display name the
\* speaker name map gives its raw identifier (the raw identifier when the map
\* has none); summary and action items are those of the current analysis.
C5_SaveFoldsNames ==
    [][MeetingSaved =>
        LET meeting == savedMeetings'[Len(savedMeetings')]
            result == Val(analysisResult)
        IN  /\ Len(meeting.analysis.transcript) = Len(result.transcript)
            /\ \A i \in 1..Len(result.transcript) :
                 /\ meeting.analysis.transcript[i].text = result.transcript[i].text
                 /\ meeting.analysis.transcript[i].speaker =
                      IF result.transcript[i].speaker \in DOMAIN speakerNameMap
                      THEN speakerNameMap[result.transcript[i].speaker]
                      ELSE result.transcript[i].speaker
            /\ meeting.analysis.summary = result.summary
            /\ meeting.analysis.actionItems = result.actionItems]_vars

\* A saved meeting shows a name the user gave beside one it left alone.
C5_SavedUnderDisplayName ==
    \E i \in 1..Len(savedMeetings) :
        LET transcript == savedMeetings[i].analysis.transcript
        IN  /\ Len(transcript) = 2
            /\ transcript[1].speaker = <<"x">>
            /\ transcript[2].speaker = SpA

\* The blob holds the same JSON content, whatever its layout.
SameContent(a, b) == a.kind = b.kind /\ a.value = b.value

\* The mount effects end.
StartupEnds == boot # "ready" /\ boot' = "ready"

WriteFailed == "Could not save meetings. Your changes might not persist."

Count(s, x) == Cardinality({i \in 1..Len(s) : s[i] = x})

\* C8: the context blocks of the prompt are in non-decreasing order of
\* timestamp and are the blocks of the meetings passed, one for one.
C8_ContextChronological ==
    gwOut.op = "answer" =>
        /\ Len(gwOut.context) = Len(gwArgs.meetings)
        /\ \A i, j \in 1..Len(gwOut.context) :
             i < j => gwOut.context[i].date <= gwOut.context[j].date
        /\ \A m \in ArgMeetings :
             Count(gwOut.context, ContextBlock(m)) = Count(gwArgs.meetings, m)

\* A prompt composed from three meetings passed latest first.
C8_ReversedInput ==
    /\ gwOut.op = "answer"
    /\ Len(gwArgs.meetings) = 3
    /\ gwArgs.meetings[1].timestamp > gwArgs.meetings[2].timestamp
    /\ gwArgs.meetings[2].timestamp > gwArgs.meetings[3].timestamp

AskInvalid == "Please select at least one meeting and ask a question."

\* C9: a question that is empty after trimming, or an empty selection, issues
\* no answer request and never sets the answering flag; the step that reports
\* the validation error leaves the answer, the selection and the collection
\* as they were.
C9_InvalidAskIsRejected ==
    [][/\ \A k \in 1..Len(answerCalls') :
            Trim(answerCalls'[k].question) # <<>> /\ answerCalls'[k].context # <<>>
       /\ (isAnswering' /\ ~isAnswering) =>
            (Trim(qaQuestion) # <<>> /\ selectedMeetingIds # {})
       /\ (error' = AskInvalid /\ error # AskInvalid) =>
            /\ Trim(qaQuestion) = <<>> \/ selectedMeetingIds = {}
            /\ UNCHANGED <<answerCalls, isAnswering, qaAnswer, selectedMeetingIds,
                           savedMeetings>>]_vars

\* A blank question was asked of a selected meeting and turned down.
C9_BlankQuestionRejected ==
    /\ error = AskInvalid
    /\ qaQuestion = <<"_">>
    /\ selectedMeetingIds # {}
    /\ ~isAnswering
    /\ answerCalls = <<>>

\* The transcript is an array of objects with a speaker and a text.
WellFormedTranscript(j) ==
    /\ j.k = "array"
    /\ \A i \in 1..Len(j.items) : ~IsNull(j.items[i].speaker) /\ ~IsNull(j.items[i].text)

\* The responses C10 says analyze succeeds on.
AcceptableResponse(resp) ==
    /\ resp.kind = "json"
    /\ WellFormedTranscript(resp.obj.transcript)
    /\ resp.obj.summary.k = "string"
    /\ resp.obj.actionItems.k = "string"

\* C10: analyze fails when the call errors, the body is empty, one of the three
\* fields is absent or null or the transcript is not a sequence of
\* {speaker, text} pairs; on every other response, an empty summary or
\* action-items string included, it returns the parsed result.
C10_OutcomeDecidedByResponse ==
    gwOut.op = "analyze" =>
        /\ gwOut.outcome.ok <=> AcceptableResponse(gwArgs.response)
        /\ gwOut.outcome.ok => gwOut.outcome.value = gwArgs.response.obj

\* C11: committing a speaker-name edit whose trimmed text is not empty sets the
\* entry of the speaker being edited to the trimmed text and changes nothing
\* else: the other entries and the keys of the map, the list of discovered
\* speakers and the analysis (transcript, summary, action items) stay.
C11_SpeakerCommitFrame ==
    [][(handleSaveSpeakerName /\ Trim(tempSpeakerName) # <<>>) =>
        /\ DOMAIN speakerNameMap' = DOMAIN speakerNameMap
        /\ speakerNameMap'[Val(editingSpeaker)] = Trim(tempSpeakerName)
        /\ \A k \in DOMAIN speakerNameMap :
             k # Val(editingSpeaker) => speakerNameMap'[k] = speakerNameMap[k]
        /\ UNCHANGED <<uniqueSpeakers, analysisResult>>]_vars

\* One of two speakers carries a name the user typed, the other its own.
C11_OneSpeakerRenamed ==
    /\ ResultShown
    /\ IsNull(editingSpeaker)
    /\ uniqueSpeakers = <<SpA, SpB>>
    /\ \E sp \in {SpA, SpB} :
         /\ speakerNameMap[sp] = <<"x">>
         /\ \A other \in {SpA, SpB} \ {sp} : speakerNameMap[other] = other
    /\ Val(analysisResult).transcript[1].speaker = SpB

\* C12: committing a transcript edit at position i sets the text of turn i to
\* the trimmed text of the editor and changes nothing else: the number and
\* order of the turns, every speaker, the text of every other turn, the
\* summary, the action items and the speaker name map stay.
C12_TranscriptCommitFrame ==
    [][handleSaveTranscript =>
        LET before == Val(analysisResult)
            after == Val(analysisResult')
            i == Val(editingTranscript).index
        IN  /\ ~IsNull(analysisResult')
            /\ Len(after.transcript) = Len(before.transcript)
            /\ after.transcript[i].text = Trim(Val(editingTranscript).text)
            /\ \A j \in 1..Len(before.transcript) :
                 /\ after.transcript[j].speaker = before.transcript[j].speaker
                 /\ j # i => after.transcript[j].text = before.transcript[j].text
            /\ after.summary = before.summary
            /\ after.actionItems = before.actionItems
            /\ UNCHANGED <<speakerNameMap, uniqueSpeakers>>]_vars

\* The first of two turns carries a text the user typed, the second its own.
C12_OneTurnRewritten ==
    /\ ResultShown
    /\ IsNull(editingTranscript)
    /\ Len(Val(analysisResult).transcript) = 2
    /\ Val(analysisResult).transcript[1].text = <<"x">>
    /\ Val(analysisResult).transcript[2].text = <<"y">>

\* An analyze call settles with an analysis to show.
AnalyzeSucceeds == analyzeCalls # <<>> /\ analyzeCalls' = Tail(analyzeCalls) /\ appState' = SUCCESS

\* C13: when an analyze call succeeds, the list of discovered speakers holds
\* the distinct speaker identifiers of the returned transcript, each once, in
\* lexical order, and the speaker name map has those identifiers as its keys,
\* each mapped to itself.
C13_SpeakersDiscovered ==
    [][AnalyzeSucceeds =>
        LET transcript == Val(analysisResult').transcript
            ids == {transcript[i].speaker : i \in 1..Len(transcript)}
        IN  /\ SeqToSet(uniqueSpeakers') = ids
            /\ Len(uniqueSpeakers') = Cardinality(ids)
            /\ \A i, j \in 1..Len(uniqueSpeakers') :
                 i < j => StrLess(uniqueSpeakers'[i], uniqueSpeakers'[j])
            /\ DOMAIN speakerNameMap' = ids
            /\ \A id \in ids : speakerNameMap'[id] = id]_vars

\* An analysis whose transcript opens with the later of two speakers.
C13_SecondSpeakerFirst ==
    /\ appState = SUCCESS
    /\ ~IsNull(analysisResult)
    /\ Val(analysisResult).transcript[1].speaker = SpB
    /\ uniqueSpeakers = <<SpA, SpB>>
    /\ speakerNameMap = [sp \in {SpA, SpB} |-> sp]

\* A redo, an analyze call started from an analysis on display, succeeds.
RedoSucceeds == AnalyzeSucceeds /\ ~IsNull(Head(analyzeCalls).prior)

\* C14: when a redo succeeds, the new analysis is on display under an identity
\* speaker name map and no inline editor is open, so that nothing typed before
\* the redo can be committed into the new analysis.
C14_RedoDiscardsEdits ==
    [][RedoSucceeds =>
        /\ ~IsNull(analysisResult')
        /\ \A sp \in DOMAIN speakerNameMap' : speakerNameMap'[sp] = sp
        /\ IsNull(editingSpeaker')
        /\ IsNull(editingTranscript')
        /\ editingSection' = "null"]_vars

\* The load effect runs.
LoadRuns == boot = "mount" /\ boot' # "mount"

LoadFailed == "Could not load saved meetings."

SaveTransition == boot = "ready" /\ MeetingSaved
MeetingDeleted == boot = "ready" /\ Len(savedMeetings') = Len(savedMeetings) - 1

\* C16: after a save or a delete whose write goes through, the item
\* 'savedMeetings' is the serialization of the whole collection in memory; and
\* no step of the running page that changes the collection in memory, its
\* write not failing, leaves an item that was up to date behind the collection.
C16_FlushedAfterEveryMutation ==
    [][/\ ((SaveTransition \/ MeetingDeleted) /\ error' # WriteFailed) =>
            storage' = JSONstringify(savedMeetings')
       /\ ( /\ boot = "ready"
            /\ storage = JSONstringify(savedMeetings)
            /\ savedMeetings' # savedMeetings
            /\ error' # WriteFailed ) =>
            storage' = JSONstringify(savedMeetings')]_vars

\* The write that follows a change of the collection went through, or it
\* failed: the item is as it was and the warning is reported.
WrittenOrWarned ==
    \/ storage' = JSONstringify(savedMeetings')
    \/ storage' = storage /\ error' = WriteFailed

\* C17: a save adds its meeting to the collection in memory and a delete
\* removes its meeting from it whether or not the write that follows goes
\* through; when the write fails the item is left as it was and the warning
\* is reported.
C17_WriteFailureKeepsMemory ==
    [][/\ handleSaveMeeting =>
            /\ Len(savedMeetings') = Len(savedMeetings) + 1
            /\ WrittenOrWarned
       /\ \A id \in MeetingIds(savedMeetings) :
            handleDeleteMeeting(id) =>
                /\ id \notin MeetingIds(savedMeetings')
                /\ Len(savedMeetings') = Len(savedMeetings) - 1
                /\ WrittenOrWarned]_vars

\* A meeting saved over an empty store never reached it; the warning is up and
\* the meeting has been selected in the Q&A view.
C17_UnwrittenMeetingInUse ==
    /\ boot = "ready"
    /\ error = WriteFailed
    /\ storage = JSONstringify(<<>>)
    /\ Len(savedMeetings) = 1
    /\ savedMeetings[1].id \in UUIDs
    /\ selectedMeetingIds = MeetingIds(savedMeetings)

\* A user-initiated operation starts: an analyze or a redo, an answer, a save,
\* a delete, or the selection of a file.
OperationStarts ==
    \/ Len(analyzeCalls') > Len(analyzeCalls)
    \/ Len(answerCalls') > Len(answerCalls)
    \/ SaveTransition
    \/ MeetingDeleted
    \/ audioFile' # audioFile /\ ~IsNull(audioFile')

\* C18: right after a user-initiated operation has started no error is on
\* display, unless it is the warning of the write that the operation itself
\* caused.
C18_ErrorClearedOnNewOperation ==
    [][(OperationStarts /\ error' # WriteFailed) => error' = NoError]_vars

\* C19: the selected audio file, when there is one, has an audio MIME type,
\* whichever way it was chosen (picker or drop).
C19_SelectedFileIsAudio ==
    ~IsNull(audioFile) => IsAudioType(Val(audioFile).type)

\* C20: a save puts one new meeting at the end of the collection, the meetings
\* already there staying as they were and in their order, and leaves no
\* analysis: no result, no selected file, an empty speaker name map and list
\* of discovered speakers, the initial state of the view and no open editor.
C20_SaveAppendsAndResets ==
    [][SaveTransition =>
        /\ Len(savedMeetings') = Len(savedMeetings) + 1
        /\ SubSeq(savedMeetings', 1, Len(savedMeetings)) = savedMeetings
        /\ savedMeetings'[Len(savedMeetings')] \notin SeqToSet(savedMeetings)
        /\ IsNull(analysisResult')
        /\ IsNull(audioFile')
        /\ appState' = INITIAL
        /\ speakerNameMap' = <<>>
        /\ uniqueSpeakers' = <<>>
        /\ IsNull(editingSpeaker')
        /\ IsNull(editingTranscript')
        /\ editingSection' = "null"]_vars

\* A second meeting has been saved behind the first, and the view is back at
\* its start.
C20_SecondMeetingAppended ==
    /\ boot = "ready"
    /\ Len(savedMeetings) = 2
    /\ savedMeetings[1].timestamp <= savedMeetings[2].timestamp
    /\ savedMeetings[1].id # savedMeetings[2].id
    /\ appState = INITIAL
    /\ IsNull(audioFile)
    /\ IsNull(analysisResult)

\* A step opens an inline editor: the speaker editor on a speaker it was not
\* on, the transcript editor on a turn it was not on, the section editor on a
\* section it was not on.
SpeakerEditorOpens == ~IsNull(editingSpeaker') /\ editingSpeaker' # editingSpeaker
TranscriptEditorOpens ==
    /\ ~IsNull(editingTranscript')
    /\ IF IsNull(editingTranscript) THEN TRUE
       ELSE Val(editingTranscript').index # Val(editingTranscript).index
SectionEditorOpens == editingSection' # "null" /\ editingSection' # editingSection

\* C21: the step that opens an editor leaves no other editor open, so that the
\* text pending in an editor opened earlier is discarded, and it commits
\* nothing: the analysis result and the speaker name map are as they were.
C21_NewEditorDiscardsPending ==
    [][/\ SpeakerEditorOpens =>
            /\ IsNull(editingTranscript') /\ editingSection' = "null"
            /\ UNCHANGED <<analysisResult, speakerNameMap>>
       /\ TranscriptEditorOpens =>
            /\ IsNull(editingSpeaker') /\ editingSection' = "null"
            /\ UNCHANGED <<analysisResult, speakerNameMap>>
       /\ SectionEditorOpens =>
            /\ IsNull(editingSpeaker') /\ IsNull(editingTranscript')
            /\ UNCHANGED <<analysisResult, speakerNameMap>>]_vars

\* C22: a speaker-name commit whose trimmed text is empty leaves the speaker
\* name map as it was and closes the editor; a transcript, summary or
\* action-items commit stores the trimmed text of the editor, the empty string
\* included, and closes the editor; a cancel closes its editor and leaves the
\* analysis result and the speaker name map as they were.
C22_CommitRules ==
    [][/\ (handleSaveSpeakerName /\ Trim(tempSpeakerName) = <<>>) =>
            /\ IsNull(editingSpeaker')
            /\ UNCHANGED <<speakerNameMap, analysisResult>>
       /\ handleSaveTranscript =>
            /\ IsNull(editingTranscript')
            /\ Val(analysisResult').transcript[Val(editingTranscript).index].text =
                 Trim(Val(editingTranscript).text)
       /\ (handleSaveSection /\ editingSection = "summary") =>
            /\ editingSection' = "null"
            /\ Val(analysisResult').summary = Trim(tempSummary)
       /\ (handleSaveSection /\ editingSection = "actionItems") =>
            /\ editingSection' = "null"
            /\ Val(analysisResult').actionItems = Trim(tempActionItems)
       /\ handleCancelSpeakerEdit =>
            IsNull(editingSpeaker') /\ UNCHANGED <<speakerNameMap, analysisResult>>
       /\ handleCancelTranscriptEdit =>
            IsNull(editingTranscript') /\ UNCHANGED <<speakerNameMap, analysisResult>>
       /\ handleCancelSectionEdit =>
            editingSection' = "null" /\ UNCHANGED <<speakerNameMap, analysisResult>>]_vars

\* A blank text has been typed and committed: the summary is the empty string,
\* no editor is open and every speaker still carries its own name.
C22_EmptySummaryCommitted ==
    /\ ResultShown
    /\ OpenEditors = 0
    /\ typed = 1
    /\ Val(analysisResult).summary = <<>>
    /\ \A sp \in DOMAIN speakerNameMap : speakerNameMap[sp] = sp

\* C23: an analyze that is loading eventually shows a result or the error
\* state with an error reported, and an answer that is being awaited
\* eventually clears the answering flag with an answer or an error reported;
\* meanwhile no step drops or adds a request other than its own settling.
C23_RequestsRunToCompletion ==
    /\ (appState = LOADING) ~> (appState = SUCCESS \/ (appState = ERROR /\ error # NoError))
    /\ isAnswering ~> (~isAnswering /\ (qaAnswer # NoAnswer \/ error # NoError))
    /\ [][/\ appState = LOADING =>
               \/ analyzeCalls' = analyzeCalls /\ appState' = LOADING
               \/ analyzeCalls' = Tail(analyzeCalls) /\ appState' \in {SUCCESS, ERROR}
          /\ isAnswering =>
               \/ answerCalls' = answerCalls /\ isAnswering'
               \/ answerCalls' = Tail(answerCalls) /\ ~isAnswering']_vars

\* An answer has been delivered and an analyze started later has failed.
C23_AnsweredThenFailedAnalyze ==
    /\ appState = ERROR
    /\ error = "Failed to analyze audio. Failed to process audio with Gemini API."
    /\ qaAnswer = "yes"
    /\ ~isAnswering
    /\ analyzeCalls = <<>> /\ answerCalls = <<>>

AnswerFailed == "Failed to get answer. Failed to get an answer from the AI."

\* The continuation of handleAskQuestion reports that the answer failed.
AnswerFails == answerCalls # <<>> /\ error' = AnswerFailed /\ error # AnswerFailed

\* C24: a step issues at most one request, and only the step of the user that
\* enters Loading or sets the answering flag issues one; a failure leaves no
\* request behind it; after a failed analyze the file is still selected and
\* the Analyze button is offered, after a failed answer the question and the
\* selection are as the failure found them and, when they are still those of
\* the request, the Ask button is offered for them.
C24_NoRetryButRetryable ==
    [][/\ Len(analyzeCalls') <= Len(analyzeCalls) + 1
       /\ Len(answerCalls') <= Len(answerCalls) + 1
       /\ Len(analyzeCalls') > Len(analyzeCalls) => (appState # LOADING /\ appState' = LOADING)
       /\ Len(answerCalls') > Len(answerCalls) => (~isAnswering /\ isAnswering')
       /\ AnalyzeFails =>
            /\ analyzeCalls' = <<>>
            /\ error' # NoError
            /\ audioFile' = audioFile /\ ~IsNull(audioFile')
            /\ view' = "analyze" => (AnalyzeButtonShown' /\ ~AnalyzeButtonDisabled')
       /\ AnswerFails =>
            /\ answerCalls' = <<>>
            /\ UNCHANGED <<qaQuestion, selectedMeetingIds, savedMeetings>>
            /\ (selectedMeetingIds # {} /\ qaQuestion = Head(answerCalls).question) =>
                 (~AskButtonDisabled' /\ ~AskRejected(qaQuestion', selectedMeetingIds'))]_vars

\* An analyze has failed with its file still selected, and an answer asked
\* later has failed with its question and selection still in place.
C24_BothFailedBothRepeatable ==
    /\ appState = ERROR
    /\ ~IsNull(audioFile)
    /\ error = AnswerFailed
    /\ ~isAnswering
    /\ view = "qa"
    /\ selectedMeetingIds # {}
    /\ Trim(qaQuestion) # <<>>
    /\ analyzeCalls = <<>> /\ answerCalls = <<>>

\* C25: the analysis result is set exactly when appState is SUCCESS; a file is
\* selected whenever appState is LOADING, SUCCESS or ERROR; in SUCCESS the
\* keys of the speaker name map are the distinct speakers of the transcript
\* on display.
C25_AnalysisStateConsistent ==
    /\ ~IsNull(analysisResult) <=> appState = SUCCESS
    /\ appState \in {LOADING, SUCCESS, ERROR} => ~IsNull(audioFile)
    /\ appState = SUCCESS =>
         DOMAIN speakerNameMap =
            {Val(analysisResult).transcript[i].speaker :
                i \in 1..Len(Val(analysisResult).transcript)}

\* A redo has failed: no result is on display, the file is still selected and
\* the speakers of the analysis it replaced are still listed.
C25_FailedRedoKeepsFile ==
    /\ appState = ERROR
    /\ IsNull(analysisResult)
    /\ ~IsNull(audioFile)
    /\ uniqueSpeakers = <<SpA, SpB>>
    /\ speakerNameMap[SpA] = <<"x">>

\* C26: while the application starts on a store that holds a collection of at
\* least one meeting, no step of the mount effects leaves the store holding
\* fewer meetings than the page found.
C26_StartupKeepsStoredMeetings ==
    [][(boot # "ready" /\ found.kind = "json" /\ found.value # <<>>) =>
        /\ storage'.kind = "json"
        /\ Len(storage'.value) >= Len(found.value)]_vars

====
